---------------------------- MODULE Spec2Model ----------------------------
(***************************************************************************)
(* A model of the Claude Code bridge for Open WebUI in its two deployment  *)
(* shapes: the embedded router (embed-installer/files/                     *)
(* claude_code_integrated.py) and the standalone sidecar (main.py).        *)
(*                                                                         *)
(* Text is modelled as a sequence of one-character strings, so that        *)
(* slicing, trimming, splitting and prefix tests are computed the way      *)
(* Python computes them.  Each action is one handler segment between two   *)
(* suspension points (await / yield) of the cooperative event loop.        *)
(***************************************************************************)
EXTENDS Integers, Sequences, FiniteSets, TLC

VARIABLES
    shape,      \* "embedded" | "standalone": which service this process runs
    settings,   \* embedded: claude_manager.settings (in-memory record)
    file,       \* embedded: the contents of CONFIG_FILE
    environ,    \* os.environ["CLAUDE_CODE_OAUTH_TOKEN"] of the service process
    config,     \* standalone: the module-level Config object
    req,        \* per request: the handler's locals, its process, its response
    admin       \* the last answer of an administrative endpoint

vars == <<shape, settings, file, environ, config, req, admin>>

-----------------------------------------------------------------------------
(* Bounds of the model *)

\* the longest result text of EncSpec spans MaxChunks full chunks and one more character
MaxChunks == 2
\* the longest message list of a request body
MaxMsgs == 2

-----------------------------------------------------------------------------
(* Python values *)

\* Python's None where a text is expected (Optional[str]); no text equals it
None == <<"<None>">>

\* truthiness of an Optional[str]: None and "" are falsy
Truthy(t) == t # None /\ t # <<>>

\* the characters str.strip() and str.split() treat as whitespace
Whitespace == {" ", "\n"}

\* a byte that is no valid UTF-8: bytes.decode raises UnicodeDecodeError on it
BadByte == "<0xff>"

\* the NUL character: os.environ and the process spawn raise ValueError on it
Nul == "<0x00>"

Min(a, b) == IF a < b THEN a ELSE b

Max(a, b) == IF a > b THEN a ELSE b

\* t[i:j] for 0 <= i, 0 <= j (Python slice, clamped to the text)
Slice(t, i, j) == SubSeq(t, Min(i, Len(t)) + 1, Min(j, Len(t)))

\* t[:n]
Head_n(t, n) == Slice(t, 0, n)

\* t[-n:] for n > 0
Tail_n(t, n) == Slice(t, Max(Len(t) - n, 0), Len(t))

\* t.startswith(p)
startswith(t, p) == Len(t) >= Len(p) /\ SubSeq(t, 1, Len(p)) = p

\* p in t  (substring test)
contains(t, p) == \E i \in 0..(Len(t) - Len(p)) : SubSeq(t, i + 1, i + Len(p)) = p

RECURSIVE lstrip(_)
lstrip(t) == IF t # <<>> /\ Head(t) \in Whitespace THEN lstrip(Tail(t)) ELSE t

RECURSIVE rstrip(_)
rstrip(t) ==
    IF t # <<>> /\ t[Len(t)] \in Whitespace THEN rstrip(SubSeq(t, 1, Len(t) - 1)) ELSE t

\* t.strip()
strip(t) == rstrip(lstrip(t))

\* len(t.split()): the number of maximal runs of non-whitespace characters
split_len(t) ==
    Cardinality({i \in 1..Len(t) :
        t[i] \notin Whitespace /\ (i = 1 \/ t[i - 1] \in Whitespace)})

\* t.replace(old, new) for a non-empty old: every non-overlapping occurrence, left to right
RECURSIVE replace(_, _, _)
replace(t, old, new) ==
    IF t = <<>> THEN <<>>
    ELSE IF startswith(t, old) THEN new \o replace(SubSeq(t, Len(old) + 1, Len(t)), old, new)
    ELSE <<Head(t)>> \o replace(Tail(t), old, new)

\* sep.join(parts)
RECURSIVE join(_, _)
join(sep, parts) ==
    IF parts = <<>> THEN <<>>
    ELSE IF Len(parts) = 1 THEN parts[1]
    ELSE parts[1] \o sep \o join(sep, Tail(parts))

\* bytes.decode('utf-8'): the text itself, or failure on an invalid byte
decodable(b) == \A i \in 1..Len(b) : b[i] # BadByte

\* the concatenation of a sequence of texts
RECURSIVE Concat(_)
Concat(ts) == IF ts = <<>> THEN <<>> ELSE Head(ts) \o Concat(Tail(ts))

-----------------------------------------------------------------------------
(* Literal texts of the source *)

T_user == <<"u", "s", "e", "r">>
T_assistant == <<"a", "s", "s", "i", "s", "t", "a", "n", "t">>
T_colon == <<":", " ">>
T_user_marker == <<"u", "s", "e", "r", ":", " ">>
T_Hello == <<"H", "e", "l", "l", "o">>
T_ErrorPrefix == <<"E", "r", "r", "o", "r", ":", " ">>
T_NoResponse ==
    <<"N", "o", " ", "r", "e", "s", "p", "o", "n", "s", "e", " ", "f", "r", "o", "m", " ",
      "C", "l", "a", "u", "d", "e", " ", "C", "o", "d", "e", " ", "C", "L", "I", ".">>
T_TokenPrefix == <<"s", "k", "-", "a", "n", "t", "-", "o", "a", "t", "0", "1", "-">>
T_Dots == <<".", ".", ".">>
T_Stars == <<"*", "*", "*">>
T_claude == <<"c", "l", "a", "u", "d", "e">>
T_print == <<"-", "-", "p", "r", "i", "n", "t">>

T_ping == <<"p", "i", "n", "g">>
T_pong == <<"p", "o", "n", "g">>
T_boom == <<"b", "o", "o", "m">>
T_a == <<"a">>
T_b == <<"b">>
T_space == <<" ">>
T_padded_pong == <<" ", "p", "o", "n", "g", "\n">>
T_blank == <<" ", "\n">>

-----------------------------------------------------------------------------
(* Program constants *)

\* range(0, len(response_text), 50) and response_text[i:i+50]
ChunkSize == 50
\* len(token) > 20 in get_settings
MaskThreshold == 20
\* token[:15]
MaskHead == 15
\* token[-4:]
MaskTail == 4
\* test_claude: execute_claude(message, timeout=10)
TestTimeout == 10
\* ClaudeCodeSettings.timeout default, Config.timeout default
DefaultTimeout == 60
\* ClaudeCodeSettings.max_context_messages default
DefaultMaxContext == 10

-----------------------------------------------------------------------------
(* Prompt extraction *)

\* a message content: a string, or a list of parts
StrContent(t) == [kind |-> "str", text |-> t, parts |-> <<>>]

ListContent(ps) == [kind |-> "list", text |-> <<>>, parts |-> ps]

\* the parts of a list content: {"type": "text", "text": t}, a bare string, anything else
TextPart(t) == [type |-> "text", text |-> t]

BarePart(t) == [type |-> "str", text |-> t]

ImagePart == [type |-> "image_url", text |-> <<>>]

Message(role, content) == [role |-> role, content |-> content]

\* the text parts of a content list, in order (the loop over `content`)
RECURSIVE text_parts(_)
text_parts(parts) ==
    IF parts = <<>> THEN <<>>
    ELSE IF Head(parts).type \in {"text", "str"}
         THEN <<Head(parts).text>> \o text_parts(Tail(parts))
         ELSE text_parts(Tail(parts))

\* the content of a message as one text: " ".join(text_parts) for a list
flatten(content) ==
    IF content.kind = "list" THEN join(T_space, text_parts(content.parts))
    ELSE content.text

\* messages[-n:] with Python's slice semantics (n = 0 gives the whole list)
context_messages(messages, n) ==
    LET start == IF -n < 0 THEN Max(Len(messages) - n, 0) ELSE Min(-n, Len(messages))
    IN  SubSeq(messages, start + 1, Len(messages))

\* embedded: one line "{role}: {content}" per message with a role and a content
RECURSIVE conversation(_)
conversation(msgs) ==
    IF msgs = <<>> THEN <<>>
    ELSE LET role == Head(msgs).role
             content == flatten(Head(msgs).content)
         IN  IF role # <<>> /\ content # <<>>
             THEN <<role \o T_colon \o content>> \o conversation(Tail(msgs))
             ELSE conversation(Tail(msgs))

\* embedded: conversation[-1].replace("user: ", "") if conversation else "Hello"
embedded_user_message(messages, n) ==
    LET conv == conversation(context_messages(messages, n))
    IN  IF conv # <<>> THEN replace(conv[Len(conv)], T_user_marker, <<>>) ELSE T_Hello

\* the last message taken whatever its role
standalone_user_message_mut(messages) ==
    IF messages = <<>> THEN <<>> ELSE flatten(messages[Len(messages)].content)

\* the last user message that has a text, earlier ones tried when a later one has none
RECURSIVE standalone_user_message_fallback(_)
standalone_user_message_fallback(messages) ==
    IF messages = <<>> THEN <<>>
    ELSE IF messages[Len(messages)].role = T_user
            /\ flatten(messages[Len(messages)].content) # <<>>
         THEN flatten(messages[Len(messages)].content)
         ELSE standalone_user_message_fallback(SubSeq(messages, 1, Len(messages) - 1))

\* standalone: the flattened content of the last message with role "user", else ""
RECURSIVE standalone_user_message(_)
standalone_user_message(messages) ==
    IF messages = <<>> THEN <<>>
    ELSE IF messages[Len(messages)].role = T_user
         THEN flatten(messages[Len(messages)].content)
         ELSE standalone_user_message(SubSeq(messages, 1, Len(messages) - 1))

-----------------------------------------------------------------------------
(* Settings store (embedded) and configuration (standalone) *)

\* class ClaudeCodeSettings
ClaudeCodeSettings(enabled, oauth_token, command_path, timeout, auto_install, stream, ctx) ==
    [enabled |-> enabled, oauth_token |-> oauth_token, command_path |-> command_path,
     timeout |-> timeout, auto_install |-> auto_install,
     stream_responses |-> stream, max_context_messages |-> ctx]

\* ClaudeCodeSettings(): every field at its default
DefaultSettings ==
    ClaudeCodeSettings(FALSE, None, T_claude, DefaultTimeout, TRUE, FALSE, DefaultMaxContext)

\* the contents of CONFIG_FILE: no file, a file that does not parse, or a record
NoFile == [state |-> "absent", data |-> DefaultSettings]

CorruptFile == [state |-> "corrupt", data |-> DefaultSettings]

RecordFile(s) == [state |-> "record", data |-> s]

\* the record install_embedded.py writes for the token the operator typed
configure_claude_code(oauth_token) ==
    RecordFile(ClaudeCodeSettings(Truthy(oauth_token), oauth_token, T_claude, DefaultTimeout,
                                  TRUE, FALSE, DefaultMaxContext))

\* ClaudeCodeManager.load_settings: the record of the file, defaults without one
load_settings(f) == IF f.state = "record" THEN f.data ELSE DefaultSettings

\* class Config of the standalone service
Config(enabled, command_path, timeout, oauth_token, api_key) ==
    [enabled |-> enabled, command_path |-> command_path, timeout |-> timeout,
     oauth_token |-> oauth_token, api_key |-> api_key]

DefaultConfig == Config(TRUE, T_claude, DefaultTimeout, None, None)

-----------------------------------------------------------------------------
(* Responses and stream events *)

NoUsage == [prompt_tokens |-> 0, completion_tokens |-> 0, total_tokens |-> 0]

\* no response sent yet
NoResp ==
    [kind |-> "none", status |-> 0, detail |-> "", seconds |-> -1, content |-> <<>>,
     usage |-> NoUsage, id |-> "", created |-> -1]

\* raise HTTPException(status_code, detail); seconds is the number detail quotes, else -1
HTTPException(status_code, detail, seconds) ==
    [NoResp EXCEPT !.kind = "http_error", !.status = status_code, !.detail = detail,
                   !.seconds = seconds]

\* the non-streamed chat.completion object, answered with status 200
Completion(id, created, content, usage) ==
    [NoResp EXCEPT !.kind = "completion", !.status = 200, !.id = id, !.created = created,
                   !.content = content, !.usage = usage]

\* the standalone {"error": {"message", "type", "code"}} payload, answered with status 200
ErrorPayload(type, seconds) ==
    [NoResp EXCEPT !.kind = "error_payload", !.status = 200, !.detail = type,
                   !.seconds = seconds]

\* StreamingResponse(...): status 200, the body is the event stream
StreamingResponse == [NoResp EXCEPT !.kind = "stream", !.status = 200]

\* one chat.completion.chunk event with a content delta
ContentChunk(id, created, offset, content) ==
    [type |-> "content", id |-> id, created |-> created, offset |-> offset,
     content |-> content, finish_reason |-> "null", detail |-> "", seconds |-> -1]

\* the terminal chat.completion.chunk event: empty delta, finish_reason "stop"
FinalChunk(id, created) ==
    [type |-> "final", id |-> id, created |-> created, offset |-> -1,
     content |-> <<>>, finish_reason |-> "stop", detail |-> "", seconds |-> -1]

\* the line "data: [DONE]"
DoneEvent ==
    [type |-> "done", id |-> "", created |-> -1, offset |-> -1,
     content |-> <<>>, finish_reason |-> "", detail |-> "", seconds |-> -1]

\* an error payload written into the stream
ErrorEvent(type, seconds) ==
    [type |-> "error", id |-> "", created |-> -1, offset |-> -1,
     content |-> <<>>, finish_reason |-> "", detail |-> type, seconds |-> seconds]

\* usage with the total taken from the prompt twice
usage_mut(user_message, response_text) ==
    [prompt_tokens |-> split_len(user_message),
     completion_tokens |-> split_len(response_text),
     total_tokens |-> split_len(user_message) + split_len(user_message)]

\* the usage block of a non-streamed response
usage(user_message, response_text) ==
    [prompt_tokens |-> split_len(user_message),
     completion_tokens |-> split_len(response_text),
     total_tokens |-> split_len(user_message) + split_len(response_text)]

\* the slice one character short: response_text[i:i+49]
chunk_at_mut(response_text, i) == Slice(response_text, i, i + ChunkSize - 1)

\* response_text[i:i+50]
chunk_at(response_text, i) == Slice(response_text, i, i + ChunkSize)

-----------------------------------------------------------------------------
(* Requests *)

\* the request body; auth is body["headers"]["authorization"] ("" when absent)
Body(messages, stream, auth) ==
    [messages |-> messages, stream |-> stream, model |-> "claude-code", auth |-> auth]

NoBody == [messages |-> <<>>, stream |-> FALSE, model |-> "", auth |-> <<>>]

\* a request not yet received
IdleReq ==
    [pc |-> "idle", kind |-> "chat", body |-> NoBody, user_message |-> <<>>,
     stream |-> FALSE, timeout |-> 0, cmd |-> <<>>, proc |-> "none", proc_cred |-> None,
     stdout |-> <<>>, stderr |-> <<>>, response_text |-> <<>>, gen |-> "none",
     chunk_id |-> "", created |-> -1, i |-> 0, events |-> <<>>, response |-> NoResp]

\* what uuid4 and time.time() may give when a response reads them: an id and a time
Stamps == {[id |-> "chatcmpl-1", now |-> 1000], [id |-> "chatcmpl-2", now |-> 1001]}

\* what the CLI process wrote: (stdout, stderr) as bytes
Output(stdout, stderr) == [stdout |-> stdout, stderr |-> stderr]

-----------------------------------------------------------------------------
(* The Process Runner and the chat handler of the embedded shape *)

\* the handler returns `resp`: the request is answered
answer(q, resp) == [q EXCEPT !.pc = "responded", !.response = resp]

\* test_claude's answers: {"success": True, "response": r} / {"success": False, "error": d}
TestSuccess(response_text) ==
    [NoResp EXCEPT !.kind = "test_success", !.status = 200, !.content = response_text]

TestFailure(exc) ==
    [NoResp EXCEPT !.kind = "test_failure", !.status = 200, !.detail = exc.detail,
                   !.seconds = exc.seconds]

\* the exception written into the stream of a request that asked for one
raise_mut(q, exc) ==
    IF q.kind = "test" THEN answer(q, TestFailure(exc))
    ELSE IF q.stream
    THEN [q EXCEPT !.pc = "responded", !.response = StreamingResponse,
                   !.events = Append(@, ErrorEvent("http_error", exc.seconds))]
    ELSE answer(q, exc)

\* an HTTPException leaves execute_claude: chat_completions re-raises it,
\* test_claude turns it into a structured failure
raise(q, exc) == answer(q, IF q.kind = "test" THEN TestFailure(exc) ELSE exc)

has_nul(t) == \E k \in 1..Len(t) : t[k] = Nul

\* whether create_subprocess_exec starts the process: the executable may be missing
\* (FileNotFoundError), and NUL in an argument or in the environment raises ValueError
spawn_outcomes(message, cred) ==
    IF has_nul(message) \/ has_nul(cred) THEN {FALSE} ELSE BOOLEAN

\* the policy of execute_claude on what the process wrote
result_text(stdout, stderr) ==
    IF stdout # <<>> THEN strip(stdout)
    ELSE IF stderr # <<>> THEN T_ErrorPrefix \o stderr
    ELSE T_NoResponse

\* whether stdout.decode / stderr.decode raises on the way
result_raises(stdout, stderr) ==
    IF stdout # <<>> THEN ~decodable(stdout) ELSE ~decodable(stderr)

\* execute_claude with the process left to the ambient environment for its credential
execute_claude_mut(q, message, timeout_arg, started) ==
    IF ~settings.enabled
    THEN raise(q, HTTPException(503, "Claude Code is disabled", -1))
    ELSE IF ~Truthy(settings.oauth_token)
    THEN raise(q, HTTPException(401, "Claude Code OAuth token not configured", -1))
    ELSE LET timeout == IF timeout_arg # 0 THEN timeout_arg ELSE settings.timeout
             q1 == [q EXCEPT !.user_message = message, !.timeout = timeout,
                             !.cmd = <<settings.command_path, T_print, message>>]
         IN  IF started
             THEN [q1 EXCEPT !.pc = "executing", !.proc = "running", !.proc_cred = environ]
             ELSE raise(q1, HTTPException(500, "str(e)", -1))

\* execute_claude up to the await of the process: the two checks, the timeout, the spawn
\* (timeout_arg = 0 stands for the default None: `timeout or self.settings.timeout`)
execute_claude(q, message, timeout_arg, started) ==
    IF ~settings.enabled
    THEN raise(q, HTTPException(503, "Claude Code is disabled", -1))
    ELSE IF ~Truthy(settings.oauth_token)
    THEN raise(q, HTTPException(401, "Claude Code OAuth token not configured", -1))
    ELSE LET timeout == IF timeout_arg # 0 THEN timeout_arg ELSE settings.timeout
             q1 == [q EXCEPT !.user_message = message, !.timeout = timeout,
                             !.cmd = <<settings.command_path, T_print, message>>]
         IN  IF started
             THEN [q1 EXCEPT !.pc = "executing", !.proc = "running",
                             !.proc_cred = settings.oauth_token]
             ELSE raise(q1, HTTPException(500, "str(e)", -1))

\* POST /chat/completions, up to the await of the process
chat_completions(r, body) ==
    /\ shape = "embedded"
    /\ req[r].pc = "idle"
    /\ LET q == [req[r] EXCEPT !.kind = "chat", !.body = body]
       IN  IF ~settings.enabled
           THEN req' = [req EXCEPT ![r] =
                    answer(q, HTTPException(503, "Claude Code is disabled in settings", -1))]
           ELSE LET stream == body.stream /\ settings.stream_responses
                    user_message ==
                        embedded_user_message(body.messages, settings.max_context_messages)
                    q1 == [q EXCEPT !.stream = stream, !.user_message = user_message]
                IN  \E started \in spawn_outcomes(user_message, settings.oauth_token) :
                        req' = [req EXCEPT ![r] = execute_claude(q1, user_message, 0, started)]
    /\ UNCHANGED <<shape, settings, file, environ, config, admin>>

\* a fresh id for every chunk
stream_id_mut(q, id) == id

\* the id and the timestamp of a stream: taken when the generator starts, then kept
stream_id(q, id) == IF q.gen = "new" THEN id ELSE q.chunk_id

stream_created(q, now) == IF q.gen = "new" THEN now ELSE q.created

\* the offset of the next content chunk: the step of range(0, len, 50)
next_offset(i) == i + ChunkSize

\* generate_stream up to its next yield: a content chunk, the final chunk, the sentinel
generate_stream_step(q, id, now) ==
    LET chunk_id == stream_id(q, id)
        created == stream_created(q, now)
        q1 == [q EXCEPT !.chunk_id = chunk_id, !.created = created]
    IN  IF q.gen \in {"new", "content"} /\ q.i < Len(q.response_text)
        THEN [q1 EXCEPT !.gen = "content", !.i = next_offset(q.i),
                 !.events = Append(@, ContentChunk(chunk_id, created, q.i,
                                                   chunk_at(q.response_text, q.i)))]
        ELSE IF q.gen \in {"new", "content"}
        THEN [q1 EXCEPT !.gen = "final", !.events = Append(@, FinalChunk(chunk_id, created))]
        ELSE [q1 EXCEPT !.gen = "done", !.pc = "responded", !.events = Append(@, DoneEvent)]

\* execute_claude from the return of communicate() and chat_completions (or test_claude)
\* to its return: the result policy, then the response or the start of the stream
execute_claude_returns(r, out, id, now) ==
    /\ shape = "embedded"
    /\ req[r].pc = "executing"
    /\ req[r].timeout > 0
    /\ LET q == [req[r] EXCEPT !.proc = "exited", !.stdout = out.stdout,
                               !.stderr = out.stderr]
           response_text == result_text(out.stdout, out.stderr)
           q1 == [q EXCEPT !.response_text = response_text]
       IN  req' = [req EXCEPT ![r] =
                IF result_raises(out.stdout, out.stderr)
                THEN raise(q, HTTPException(500, "str(e)", -1))
                ELSE IF q.kind = "test" THEN answer(q1, TestSuccess(response_text))
                ELSE IF q.stream
                THEN [q1 EXCEPT !.pc = "streaming", !.gen = "new",
                                !.response = StreamingResponse]
                ELSE answer(q1, Completion(id, now, response_text,
                                           usage(q.user_message, response_text)))]
    /\ UNCHANGED <<shape, settings, file, environ, config, admin>>

\* the 504 quoting the timeout of the settings as they are now
timeout_error_mut(q) ==
    HTTPException(504, "Claude CLI timed out after {timeout} seconds", settings.timeout)

\* except asyncio.TimeoutError: the 504 that quotes the timeout waited for
timeout_error(q) ==
    HTTPException(504, "Claude CLI timed out after {timeout} seconds", q.timeout)

\* asyncio.wait_for gives up: TimeoutError becomes a 504; the process is left running
execute_claude_timeout(r) ==
    /\ shape = "embedded"
    /\ req[r].pc = "executing"
    /\ req' = [req EXCEPT ![r] = raise(req[r], timeout_error(req[r]))]
    /\ UNCHANGED <<shape, settings, file, environ, config, admin>>

\* the StreamingResponse pulls the next event from generate_stream()
generate_stream(r, id, now) ==
    /\ shape = "embedded"
    /\ req[r].pc = "streaming"
    /\ req' = [req EXCEPT ![r] = generate_stream_step(req[r], id, now)]
    /\ UNCHANGED <<shape, settings, file, environ, config, admin>>

\* a process nobody waits for any more ends by itself
process_exits(r) ==
    /\ req[r].pc = "responded"
    /\ req[r].proc = "running"
    /\ req' = [req EXCEPT ![r].proc = "exited"]
    /\ UNCHANGED <<shape, settings, file, environ, config, admin>>

-----------------------------------------------------------------------------
(* The standalone sidecar (main.py) *)

T_Bearer == <<"B", "e", "a", "r", "e", "r", " ">>

\* the error payload written and the generator going on as before
yield_error_mut(q, type, seconds) ==
    [q EXCEPT !.events = Append(@, ErrorEvent(type, seconds))]

\* generate_response yields an error payload: into the stream when streaming (the
\* generator then ends), else as the JSON body
yield_error(q, type, seconds) ==
    IF q.stream
    THEN [q EXCEPT !.pc = "responded", !.gen = "done",
                   !.events = Append(@, ErrorEvent(type, seconds))]
    ELSE answer(q, ErrorPayload(type, seconds))

\* generate_response up to the await of the process: the spawn with env={**os.environ}
generate_response_start(q, started) ==
    LET q1 == [q EXCEPT !.cmd = <<config.command_path, T_print, q.user_message>>,
                        !.timeout = config.timeout]
    IN  IF started
        THEN [q1 EXCEPT !.pc = "executing", !.proc = "running", !.proc_cred = environ]
        ELSE yield_error(q1, "internal_error", -1)

\* POST /api/v1/chat/completions: the gate, the API key, the last user message; a
\* non-streamed request runs generate_response at once, a streamed one returns the
\* StreamingResponse that will run it
sidecar_chat_completions(r, body) ==
    /\ shape = "standalone"
    /\ req[r].pc = "idle"
    /\ LET q == [req[r] EXCEPT !.kind = "chat", !.body = body, !.stream = body.stream]
           user_message == standalone_user_message(body.messages)
           q1 == [q EXCEPT !.user_message = user_message]
       IN  IF ~config.enabled
           THEN req' = [req EXCEPT ![r] =
                    answer(q, HTTPException(503, "Claude Code service is disabled", -1))]
           ELSE IF Truthy(config.api_key)
                   /\ (body.auth = <<>> \/ body.auth # T_Bearer \o config.api_key)
           THEN req' = [req EXCEPT ![r] = answer(q, HTTPException(401, "Invalid API key", -1))]
           ELSE IF user_message = <<>>
           THEN req' = [req EXCEPT ![r] =
                    answer(q1, HTTPException(400, "No user message found", -1))]
           ELSE IF body.stream
           THEN req' = [req EXCEPT ![r] =
                    [q1 EXCEPT !.pc = "started", !.gen = "new", !.response = StreamingResponse]]
           ELSE \E started \in spawn_outcomes(user_message, environ) :
                    req' = [req EXCEPT ![r] = generate_response_start(q1, started)]
    /\ UNCHANGED <<shape, settings, file, environ, config, admin>>

\* the StreamingResponse starts generate_response()
generate_response_begin(r) ==
    /\ shape = "standalone"
    /\ req[r].pc = "started"
    /\ \E started \in spawn_outcomes(req[r].user_message, environ) :
           req' = [req EXCEPT ![r] = generate_response_start(req[r], started)]
    /\ UNCHANGED <<shape, settings, file, environ, config, admin>>

\* the result text of generate_response: stdout trimmed, the fallback when that is empty
sidecar_result_text(stdout, stderr) ==
    LET response_text == IF stdout # <<>> THEN strip(stdout) ELSE <<>>
    IN  IF response_text = <<>> THEN T_NoResponse ELSE response_text

\* generate_response up to its next yield while streaming
generate_response_step(q, id, now) ==
    LET chunk_id == IF q.gen = "new" THEN id ELSE q.chunk_id
        created == IF q.gen = "new" THEN now ELSE q.created
        q1 == [q EXCEPT !.chunk_id = chunk_id, !.created = created]
    IN  IF q.gen \in {"new", "content"} /\ q.i < Len(q.response_text)
        THEN [q1 EXCEPT !.gen = "content", !.i = q.i + ChunkSize,
                 !.events = Append(@, ContentChunk(chunk_id, created, q.i,
                                                   chunk_at(q.response_text, q.i)))]
        ELSE IF q.gen \in {"new", "content"}
        THEN [q1 EXCEPT !.gen = "final", !.events = Append(@, FinalChunk(chunk_id, created))]
        ELSE [q1 EXCEPT !.gen = "done", !.pc = "responded", !.events = Append(@, DoneEvent)]

\* generate_response from the return of communicate(): the result text, then the
\* complete response, or the stream
generate_response_returns(r, out, id, now) ==
    /\ shape = "standalone"
    /\ req[r].pc = "executing"
    /\ req[r].timeout > 0
    /\ LET q == [req[r] EXCEPT !.proc = "exited", !.stdout = out.stdout,
                               !.stderr = out.stderr]
           response_text == sidecar_result_text(out.stdout, out.stderr)
           q1 == [q EXCEPT !.response_text = response_text]
       IN  req' = [req EXCEPT ![r] =
                IF out.stdout # <<>> /\ ~decodable(out.stdout)
                THEN yield_error(q, "internal_error", -1)
                ELSE IF q.stream THEN [q1 EXCEPT !.pc = "streaming"]
                ELSE answer(q1, Completion(id, now, response_text,
                                           usage(q.user_message, response_text)))]
    /\ UNCHANGED <<shape, settings, file, environ, config, admin>>

\* asyncio.wait_for gives up: the timeout error payload; the process is left running
generate_response_timeout(r) ==
    /\ shape = "standalone"
    /\ req[r].pc = "executing"
    /\ req' = [req EXCEPT ![r] = yield_error(req[r], "timeout_error", config.timeout)]
    /\ UNCHANGED <<shape, settings, file, environ, config, admin>>

\* the StreamingResponse pulls the next event from generate_response()
generate_response_stream(r, id, now) ==
    /\ shape = "standalone"
    /\ req[r].pc = "streaming"
    /\ req' = [req EXCEPT ![r] = generate_response_step(req[r], id, now)]
    /\ UNCHANGED <<shape, settings, file, environ, config, admin>>

\* POST /api/v1/register: the API key is replaced when one is given
register_with_openwebui(api_key) ==
    /\ shape = "standalone"
    /\ config' = IF Truthy(api_key) THEN [config EXCEPT !.api_key = api_key] ELSE config
    /\ UNCHANGED <<shape, settings, file, environ, req, admin>>

-----------------------------------------------------------------------------
(* The administrative endpoints of the embedded shape *)

\* no administrative call answered yet
NoAdmin ==
    [op |-> "none", status |-> 0, input |-> DefaultSettings, saved |-> DefaultSettings,
     write |-> "none", body |-> DefaultSettings]

\* the answer to GET /settings: the record returned
GetAnswer(body) == [NoAdmin EXCEPT !.op = "get", !.status = 200, !.body = body]

\* the answer to POST /settings: its status, with the record posted, the record handed
\* to save_settings and how the write of the file ended ("none": no write attempted)
UpdateAnswer(status, input, saved, write) ==
    [NoAdmin EXCEPT !.op = "update", !.status = status, !.input = input, !.saved = saved,
                    !.write = write]

\* how the write of CONFIG_FILE ends: written; mkdir/open raises (the file is as it
\* was); json.dump raises after open(..., 'w') truncated the file
WriteOutcomes == {"written", "open_fails", "dump_fails"}

\* os.environ[...] = token raises ValueError on an embedded NUL
setenv_raises(token) == Truthy(token) /\ has_nul(token)

\* ClaudeCodeManager.save_settings: its return value ...
save_settings_result(s, w) == w = "written" /\ ~setenv_raises(s.oauth_token)

\* ... the file it leaves ...
save_settings_file(s, w) ==
    IF w = "written" THEN RecordFile(s)
    ELSE IF w = "dump_fails" THEN CorruptFile
    ELSE file

\* the assignment made whatever became of the file
save_settings_memory_mut(s, w) == s

\* ... self.settings = settings, reached once the file is written ...
save_settings_memory(s, w) == IF w = "written" THEN s ELSE settings

\* ... and os.environ["CLAUDE_CODE_OAUTH_TOKEN"], set for a token that is given
save_settings_environ(s, w) ==
    IF w = "written" /\ Truthy(s.oauth_token) /\ ~setenv_raises(s.oauth_token)
    THEN s.oauth_token
    ELSE environ

\* the mask with the long form from 20 characters on
mask_mut(token) ==
    IF Len(token) >= MaskThreshold
    THEN Head_n(token, MaskHead) \o T_Dots \o Tail_n(token, MaskTail)
    ELSE T_Stars

\* the mask of get_settings: token[:15] + "..." + token[-4:] if len(token) > 20 else "***"
mask(token) ==
    IF Len(token) > MaskThreshold
    THEN Head_n(token, MaskHead) \o T_Dots \o Tail_n(token, MaskTail)
    ELSE T_Stars

\* the record GET /settings returns
masked_settings(s) ==
    IF Truthy(s.oauth_token) THEN [s EXCEPT !.oauth_token = mask(s.oauth_token)] ELSE s

\* GET /settings
get_settings ==
    /\ shape = "embedded"
    /\ admin' = GetAnswer(masked_settings(settings))
    /\ UNCHANGED <<shape, settings, file, environ, config, req>>

\* the token stored as it was posted
preserve_token_mut(s) == s

\* update_settings: a token that looks like the mask stands for the stored token
preserve_token(s) ==
    IF Truthy(s.oauth_token) /\ startswith(s.oauth_token, T_TokenPrefix)
       /\ contains(s.oauth_token, T_Dots)
    THEN [s EXCEPT !.oauth_token = settings.oauth_token]
    ELSE s

\* the format check with the vendor prefix only
invalid_token_mut(token) ==
    Truthy(token) /\ ~startswith(token, <<"s", "k", "-", "a", "n", "t", "-">>)

\* update_settings: the format check on the token
invalid_token(token) == Truthy(token) /\ ~startswith(token, T_TokenPrefix)

\* POST /settings
update_settings(s, w) ==
    /\ shape = "embedded"
    /\ LET s1 == preserve_token(s)
       IN  IF invalid_token(s1.oauth_token)
           THEN /\ admin' = UpdateAnswer(400, s, s1, "none")
                /\ UNCHANGED <<settings, file, environ>>
           ELSE /\ settings' = save_settings_memory(s1, w)
                /\ file' = save_settings_file(s1, w)
                /\ environ' = save_settings_environ(s1, w)
                /\ admin' = UpdateAnswer(IF save_settings_result(s1, w) THEN 200 ELSE 500,
                                         s, s1, w)
    /\ UNCHANGED <<shape, config, req>>

\* POST /test, up to the await of the process: execute_claude(message, timeout=10)
test_claude(r, message) ==
    /\ shape = "embedded"
    /\ req[r].pc = "idle"
    /\ \E started \in spawn_outcomes(message, settings.oauth_token) :
           req' = [req EXCEPT ![r] =
               execute_claude([req[r] EXCEPT !.kind = "test"], message, TestTimeout, started)]
    /\ UNCHANGED <<shape, settings, file, environ, config, admin>>

-----------------------------------------------------------------------------
(* Inputs *)

\* every sequence over S of length at most n
SeqsUpTo(S, n) == UNION {[1..k -> S] : k \in 0..n}

\* a text of length L with words and blanks in it
Pat(L) == [k \in 1..L |-> IF k % 11 = 3 THEN " " ELSE IF k % 2 = 0 THEN "b" ELSE "a"]

\* credentials: 25, 21, 20 and 16 characters with the required prefix, one without it,
\* one of the mask's own form, one with a NUL in it
Tok_long == T_TokenPrefix \o <<"A", "B", "C", "D", "E", "F", "G", "H", "I", "J", "K", "L">>
Tok_21 == T_TokenPrefix \o <<"1", "2", "3", "4", "5", "6", "7", "8">>
Tok_20 == T_TokenPrefix \o <<"1", "2", "3", "4", "5", "6", "7">>
Tok_short == T_TokenPrefix \o <<"a", "b", "c">>
Tok_bad == <<"b", "a", "d">>
Tok_masklike == T_TokenPrefix \o <<"a", "b", ".", ".", ".", "w", "x", "y", "z">>
Tok_nul == T_TokenPrefix \o <<Nul>>
Tok_longbad == <<"b", "a", "d">> \o Tok_short \o <<"x", "y">>

T_key == <<"k">>
T_claude2 == <<"c", "l", "a", "u", "d", "e", "2">>

\* the requests
Reqs == {"r1"}

\* messages: a user string, an assistant string, a user list of parts
SpecMsgs ==
    {Message(T_user, StrContent(T_ping)),
     Message(T_assistant, StrContent(T_pong)),
     Message(T_user, ListContent(<<TextPart(T_a), ImagePart, BarePart(T_b)>>))}

EmbeddedBodies == {Body(m, st, <<>>) : m \in SeqsUpTo(SpecMsgs, MaxMsgs), st \in BOOLEAN}

SidecarBodies ==
    {Body(m, st, a) : m \in SeqsUpTo(SpecMsgs, MaxMsgs), st \in BOOLEAN,
                      a \in {<<>>, T_Bearer \o T_key}}

\* what the process may write
SpecOutputs ==
    {Output(T_pong, <<>>), Output(T_padded_pong, <<>>), Output(<<>>, T_boom),
     Output(<<>>, <<>>), Output(T_blank, T_boom), Output(Pat(ChunkSize + 1), <<>>),
     Output(<<BadByte>>, <<>>)}

\* the persisted file the embedded service may start with
SpecFiles == {NoFile, configure_claude_code(Tok_long)}

\* the records POST /settings may carry
SpecUpdates ==
    {ClaudeCodeSettings(TRUE, Tok_long, T_claude, 60, TRUE, TRUE, 10),
     ClaudeCodeSettings(TRUE, Tok_21, T_claude2, 30, FALSE, FALSE, 1),
     ClaudeCodeSettings(TRUE, None, T_claude, 60, TRUE, TRUE, 10)}

\* the configurations the standalone service may start with
SpecConfigs ==
    {Config(e, T_claude, t, tok, k) :
        e \in BOOLEAN, t \in {DefaultTimeout}, tok \in {None, Tok_long}, k \in {None, T_key}}

TestMessages == {T_Hello}

-----------------------------------------------------------------------------
(* The specification: both shapes, one request, the settings updated at any time *)

InitWith(files, configs) ==
    /\ \/ /\ shape = "embedded"
          /\ file \in files
          /\ settings = load_settings(file)
          /\ environ = None
          /\ config = DefaultConfig
       \/ /\ shape = "standalone"
          /\ config \in configs
          /\ environ = config.oauth_token
          /\ settings = DefaultSettings
          /\ file = NoFile
    /\ req = [r \in Reqs |-> IdleReq]
    /\ admin = NoAdmin

Init == InitWith(SpecFiles, SpecConfigs)

Next ==
    \/ \E r \in Reqs, body \in EmbeddedBodies : chat_completions(r, body)
    \/ \E r \in Reqs, out \in SpecOutputs, st \in Stamps :
           execute_claude_returns(r, out, st.id, st.now)
    \/ \E r \in Reqs : execute_claude_timeout(r)
    \/ \E r \in Reqs, st \in Stamps : generate_stream(r, st.id, st.now)
    \/ \E r \in Reqs : process_exits(r)
    \/ \E r \in Reqs, m \in TestMessages : test_claude(r, m)
    \/ \E s \in SpecUpdates, w \in WriteOutcomes : update_settings(s, w)
    \/ \E r \in Reqs, body \in SidecarBodies : sidecar_chat_completions(r, body)
    \/ \E r \in Reqs : generate_response_begin(r)
    \/ \E r \in Reqs, out \in SpecOutputs, st \in Stamps :
           generate_response_returns(r, out, st.id, st.now)
    \/ \E r \in Reqs : generate_response_timeout(r)
    \/ \E r \in Reqs, st \in Stamps : generate_response_stream(r, st.id, st.now)
    \/ \E k \in {None, T_key} : register_with_openwebui(k)

Spec == Init /\ [][Next]_vars

-----------------------------------------------------------------------------
(* The encoder on result texts of every length up to MaxChunks chunks and one *)

EncSettings == ClaudeCodeSettings(TRUE, Tok_long, T_claude, DefaultTimeout, TRUE, TRUE,
                                  DefaultMaxContext)

EncBodies == {Body(<<Message(T_user, StrContent(T_ping))>>, st, <<>>) : st \in BOOLEAN}

\* stdout of every length, stdout that trims to nothing, no stdout at all
EncOutputs ==
    {Output(Pat(L), <<>>) : L \in 0..(MaxChunks * ChunkSize + 1)}
        \cup {Output(T_blank, <<>>), Output(<<>>, T_boom)}

EncInit ==
    InitWith({RecordFile(EncSettings)},
             {Config(TRUE, T_claude, DefaultTimeout, Tok_long, None)})

EncNext ==
    \/ \E r \in Reqs, body \in EncBodies : chat_completions(r, body)
    \/ \E r \in Reqs, out \in EncOutputs, st \in Stamps :
           execute_claude_returns(r, out, st.id, st.now)
    \/ \E r \in Reqs, st \in Stamps : generate_stream(r, st.id, st.now)
    \/ \E r \in Reqs, body \in EncBodies : sidecar_chat_completions(r, body)
    \/ \E r \in Reqs : generate_response_begin(r)
    \/ \E r \in Reqs, out \in EncOutputs, st \in Stamps :
           generate_response_returns(r, out, st.id, st.now)
    \/ \E r \in Reqs, st \in Stamps : generate_response_stream(r, st.id, st.now)

EncSpec == EncInit /\ [][EncNext]_vars

-----------------------------------------------------------------------------
(* The settings store under every kind of credential *)

T_api_key ==
    <<"s", "k", "-", "a", "n", "t", "-", "a", "p", "i", "0", "3", "-", "x">>

\* what the operator may have typed into install_embedded.py
InstallerTokens == {None, Tok_long, Tok_short, Tok_bad, Tok_longbad, Tok_masklike, T_Stars}

AdminFiles == {NoFile, CorruptFile} \cup {configure_claude_code(t) : t \in InstallerTokens}

\* the tokens POST /settings may carry: none, empty, valid ones around the mask
\* threshold, invalid ones, and what GET /settings showed
AdminTokens ==
    {None, <<>>, Tok_long, Tok_21, Tok_20, Tok_short, Tok_nul, Tok_bad, T_api_key,
     T_Stars, mask(Tok_long), mask(Tok_21), mask(Tok_longbad), Tok_masklike}

\* the other fields of the record come in two profiles
AdminUpdates ==
    {ClaudeCodeSettings(TRUE, t, T_claude, DefaultTimeout, TRUE, FALSE, DefaultMaxContext) :
        t \in AdminTokens}
    \cup {ClaudeCodeSettings(FALSE, t, T_claude2, 30, FALSE, TRUE, 1) :
        t \in {Tok_21, Tok_bad, mask(Tok_long)}}

AdminInit == InitWith(AdminFiles, {})

AdminNext ==
    \/ get_settings
    \/ \E s \in AdminUpdates, w \in WriteOutcomes : update_settings(s, w)

AdminSpec == AdminInit /\ [][AdminNext]_vars

-----------------------------------------------------------------------------
(* The embedded service with every operation of it and saves of every outcome, *)
(* a token os.environ refuses among them                                       *)

SaveBodies == {Body(<<Message(T_user, StrContent(T_ping))>>, st, <<>>) : st \in BOOLEAN}

SaveOutputs == {Output(T_pong, <<>>), Output(<<>>, T_boom)}

SaveUpdates ==
    {ClaudeCodeSettings(TRUE, t, T_claude, DefaultTimeout, TRUE, TRUE, DefaultMaxContext) :
        t \in {None, Tok_long, Tok_21, Tok_nul, Tok_bad, mask(Tok_long)}}
    \cup {ClaudeCodeSettings(FALSE, Tok_21, T_claude2, 30, FALSE, FALSE, 1)}

SaveInit == InitWith(SpecFiles, {})

SaveNext ==
    \/ \E r \in Reqs, body \in SaveBodies : chat_completions(r, body)
    \/ \E r \in Reqs, out \in SaveOutputs, st \in Stamps :
           execute_claude_returns(r, out, st.id, st.now)
    \/ \E r \in Reqs : execute_claude_timeout(r)
    \/ \E r \in Reqs, st \in Stamps : generate_stream(r, st.id, st.now)
    \/ \E r \in Reqs : process_exits(r)
    \/ \E r \in Reqs, m \in TestMessages : test_claude(r, m)
    \/ get_settings
    \/ \E s \in SaveUpdates, w \in WriteOutcomes : update_settings(s, w)

SaveSpec == SaveInit /\ [][SaveNext]_vars

-----------------------------------------------------------------------------
(* Two chat requests of the embedded service in flight at once, with settings *)
(* updates between their steps                                                 *)

RaceReqs == {"r1", "r2"}

RaceBodies == {Body(<<Message(T_user, StrContent(T_ping))>>, FALSE, <<>>)}

RaceOutputs == {Output(T_pong, <<>>)}

RaceUpdates ==
    {ClaudeCodeSettings(TRUE, t, T_claude, DefaultTimeout, TRUE, FALSE, DefaultMaxContext) :
        t \in {None, Tok_long, Tok_21}}
    \cup {ClaudeCodeSettings(FALSE, Tok_21, T_claude, DefaultTimeout, TRUE, FALSE,
                             DefaultMaxContext)}

RaceInit ==
    /\ shape = "embedded"
    /\ file \in SpecFiles
    /\ settings = load_settings(file)
    /\ environ = None
    /\ config = DefaultConfig
    /\ req = [r \in RaceReqs |-> IdleReq]
    /\ admin = NoAdmin

RaceNext ==
    \/ \E r \in RaceReqs, body \in RaceBodies : chat_completions(r, body)
    \/ \E r \in RaceReqs, out \in RaceOutputs, st \in Stamps :
           execute_claude_returns(r, out, st.id, st.now)
    \/ \E r \in RaceReqs : execute_claude_timeout(r)
    \/ \E r \in RaceReqs : process_exits(r)
    \/ \E s \in RaceUpdates, w \in WriteOutcomes : update_settings(s, w)

RaceSpec == RaceInit /\ [][RaceNext]_vars

-----------------------------------------------------------------------------
(* The prompt extraction of both shapes on message lists of every kind and, in *)
(* the embedded shape, every max_context_messages from 0 to beyond the list    *)

T_marked == <<"a", " ", "u", "s", "e", "r", ":", " ", "b">>

\* a user text, an assistant text, a user text with the marker inside, an empty text,
\* a list with text, image and bare string parts, a list without text
PromptMsgs ==
    {Message(T_user, StrContent(T_ping)),
     Message(T_assistant, StrContent(T_pong)),
     Message(T_user, StrContent(T_marked)),
     Message(T_user, StrContent(<<>>)),
     Message(T_user, ListContent(<<TextPart(T_a), ImagePart, BarePart(T_b)>>)),
     Message(T_user, ListContent(<<ImagePart>>))}

PromptBodies == {Body(m, FALSE, <<>>) : m \in SeqsUpTo(PromptMsgs, MaxMsgs)}

PromptOutputs == {Output(T_pong, <<>>)}

PromptFiles ==
    {RecordFile(ClaudeCodeSettings(TRUE, Tok_long, T_claude, DefaultTimeout, TRUE, FALSE, n)) :
        n \in (0..(MaxMsgs + 1)) \cup {DefaultMaxContext}}

PromptInit == InitWith(PromptFiles, SpecConfigs)

PromptNext ==
    \/ \E r \in Reqs, body \in PromptBodies : chat_completions(r, body)
    \/ \E r \in Reqs, out \in PromptOutputs, st \in Stamps :
           execute_claude_returns(r, out, st.id, st.now)
    \/ \E r \in Reqs, body \in PromptBodies : sidecar_chat_completions(r, body)
    \/ \E r \in Reqs, out \in PromptOutputs, st \in Stamps :
           generate_response_returns(r, out, st.id, st.now)

PromptSpec == PromptInit /\ [][PromptNext]_vars

-----------------------------------------------------------------------------
(* Properties *)

\* the content chunks among the events of a stream, in emission order
ContentEvents(events) == SelectSeq(events, LAMBDA e : e.type = "content")

\* the delta.content values of a sequence of content chunks
Contents(chunks) == [k \in 1..Len(chunks) |-> chunks[k].content]

CeilDiv(a, b) == (a + b - 1) \div b

\* the stream of request q ran to its end without an error payload
StreamedOk(q) ==
    /\ q.pc = "responded"
    /\ q.response.kind = "stream"
    /\ \A k \in 1..Len(q.events) : q.events[k].type # "error"

\* the number of words of a text, counted from its end
RECURSIVE Words(_)
Words(t) ==
    IF t = <<>> THEN 0
    ELSE LET n == Len(t)
             ends_word == t[n] \notin Whitespace /\ (n = 1 \/ t[n - 1] \in Whitespace)
         IN  Words(SubSeq(t, 1, n - 1)) + (IF ends_word THEN 1 ELSE 0)

(* C1: for a result text of length L, in both shapes, a finished stream carries   *)
(* exactly ceil(L/50) content chunks, each of exactly 50 characters except        *)
(* possibly the last (which is never empty), and their delta.content values       *)
(* concatenated in emission order are the result text; the non-streamed response  *)
(* carries that same result text as its message content.                          *)
C1_RoundTrip ==
    \A r \in Reqs :
        LET q == req[r]
            cs == ContentEvents(q.events)
            L == Len(q.response_text)
        IN  /\ StreamedOk(q) =>
                (/\ Len(cs) = CeilDiv(L, 50)
                 /\ \A k \in 1..Len(cs) :
                        IF k < Len(cs) THEN Len(cs[k].content) = 50
                        ELSE Len(cs[k].content) \in 1..50
                 /\ Concat(Contents(cs)) = q.response_text)
            /\ (q.response.kind = "completion" => q.response.content = q.response_text)

\* a finished stream of a text one character longer than MaxChunks full chunks
C1_Witness ==
    \E r \in Reqs :
        /\ StreamedOk(req[r])
        /\ Len(req[r].response_text) = MaxChunks * ChunkSize + 1
        /\ Len(ContentEvents(req[r].events)) = MaxChunks + 1

\* a finished stream of the empty result text: no content chunk at all
C1_WitnessEmpty ==
    \E r \in Reqs :
        /\ StreamedOk(req[r])
        /\ req[r].response_text = <<>>
        /\ ContentEvents(req[r].events) = <<>>

(* C2: in a stream without an error payload all chunks share one id and one       *)
(* creation timestamp, content chunks come in strictly increasing offset order,   *)
(* nothing but the sentinel follows the terminal chunk and nothing follows the    *)
(* sentinel; a finished stream ends with exactly one terminal chunk (empty delta, *)
(* finish_reason "stop") followed by exactly one sentinel, its last event.        *)
C2_StreamOrder ==
    \A r \in Reqs :
        LET q == req[r]
            ev == q.events
            n == Len(ev)
        IN  (\A k \in 1..n : ev[k].type # "error") =>
                /\ \A j, k \in 1..n :
                       (ev[j].type # "done" /\ ev[k].type # "done") =>
                           (ev[j].id = ev[k].id /\ ev[j].created = ev[k].created)
                /\ \A j, k \in 1..n :
                       (j < k /\ ev[j].type = "content" /\ ev[k].type = "content") =>
                           ev[j].offset < ev[k].offset
                /\ \A j, k \in 1..n :
                       (j < k /\ ev[j].type = "final") => ev[k].type = "done"
                /\ \A j, k \in 1..n : (j < k) => ev[j].type # "done"
                /\ (StreamedOk(q) =>
                       /\ n >= 2
                       /\ ev[n].type = "done"
                       /\ ev[n - 1].type = "final"
                       /\ ev[n - 1].content = <<>>
                       /\ ev[n - 1].finish_reason = "stop"
                       /\ \A k \in 1..(n - 2) : ev[k].type = "content")

\* a finished stream with at least two content chunks
C2_Witness ==
    \E r \in Reqs :
        /\ StreamedOk(req[r])
        /\ Len(ContentEvents(req[r].events)) >= 2

(* C3: in every non-streamed completion, usage.prompt_tokens is the number of     *)
(* whitespace-separated words of the prompt handed to the CLI, completion_tokens  *)
(* that of the result text, and total_tokens their sum.                           *)
C3_Usage ==
    \A r \in Reqs :
        LET q == req[r]
            u == q.response.usage
        IN  q.response.kind = "completion" =>
                /\ Len(q.cmd) = 3
                /\ u.prompt_tokens = Words(q.cmd[3])
                /\ u.completion_tokens = Words(q.response.content)
                /\ u.total_tokens = u.prompt_tokens + u.completion_tokens

\* prompt "ping" answered "pong": 1, 1 and 2 tokens
C3_Witness ==
    \E r \in Reqs :
        /\ req[r].response.kind = "completion"
        /\ req[r].cmd[3] = T_ping
        /\ req[r].response.content = T_pong
        /\ req[r].response.usage =
               [prompt_tokens |-> 1, completion_tokens |-> 1, total_tokens |-> 2]


\* no message of the list has role "user"
NoUserMessage(messages) == \A k \in 1..Len(messages) : messages[k].role # T_user

\* the standalone gate as the handler finds it: enabled, and the bearer key when one is set
GatePasses(body) ==
    /\ config.enabled
    /\ Truthy(config.api_key) => body.auth = T_Bearer \o config.api_key

(* C4 as stated: in the standalone shape a request without a role="user" message  *)
(* ends with a 400 error and no CLI process is spawned for it.                     *)
C4_Original ==
    \A r \in Reqs :
        (shape = "standalone" /\ req[r].pc # "idle" /\ NoUserMessage(req[r].body.messages)) =>
            /\ req[r].pc = "responded"
            /\ req[r].response.kind = "http_error"
            /\ req[r].response.status = 400
            /\ req[r].proc = "none"

(* C4: in the standalone shape a request without a role="user" message is         *)
(* answered at once with an HTTP error and no CLI process is ever spawned for it;  *)
(* the error is the 400 when the request passes the gate (service enabled, API key *)
(* accepted), and the gate's own 503 or 401 otherwise.                             *)
C4_NoUserMessage ==
    /\ [](\A r \in Reqs :
            (shape = "standalone" /\ req[r].pc # "idle"
                /\ NoUserMessage(req[r].body.messages)) =>
                /\ req[r].pc = "responded"
                /\ req[r].response.kind = "http_error"
                /\ req[r].proc = "none"
                /\ req[r].cmd = <<>>)
    /\ [][\A r \in Reqs :
            (shape = "standalone" /\ req[r].pc = "idle" /\ req'[r].pc # "idle"
                /\ NoUserMessage(req'[r].body.messages)) =>
                IF GatePasses(req'[r].body)
                THEN req'[r].response.status = 400
                ELSE req'[r].response.status \in {401, 503}]_vars

\* a request with messages, none of them from the user, answered 400
C4_Witness ==
    \E r \in Reqs :
        /\ shape = "standalone"
        /\ req[r].pc = "responded"
        /\ req[r].body.messages # <<>>
        /\ NoUserMessage(req[r].body.messages)
        /\ req[r].response.status = 400
        /\ req[r].proc = "none"

\* request q was answered while the process it spawned was still running
AnsweredBeforeExit(q) == q.pc = "responded" /\ q.proc = "running"

(* C5: a chat request answered while its CLI process has not completed gets a     *)
(* timeout error - HTTP 504 in the embedded shape, an error payload of type        *)
(* "timeout_error" in the standalone shape (the only event of the stream when      *)
(* streaming) - that quotes the timeout waited for, and nothing the process wrote: *)
(* no result text, no message content, no content chunk.                           *)
C5_Timeout ==
    \A r \in Reqs :
        LET q == req[r]
        IN  (q.kind = "chat" /\ AnsweredBeforeExit(q)) =>
                /\ IF shape = "embedded"
                   THEN /\ q.response.kind = "http_error"
                        /\ q.response.status = 504
                        /\ q.response.seconds = q.timeout
                        /\ q.events = <<>>
                   ELSE IF q.stream
                   THEN /\ q.response.kind = "stream"
                        /\ Len(q.events) = 1
                        /\ q.events[1].type = "error"
                        /\ q.events[1].detail = "timeout_error"
                        /\ q.events[1].seconds = q.timeout
                   ELSE /\ q.response.kind = "error_payload"
                        /\ q.response.detail = "timeout_error"
                        /\ q.response.seconds = q.timeout
                        /\ q.events = <<>>
                /\ q.timeout = (IF shape = "embedded" THEN q.timeout ELSE config.timeout)
                /\ q.response.content = <<>>
                /\ q.response_text = <<>>
                /\ q.stdout = <<>> /\ q.stderr = <<>>

\* an embedded chat request timed out after the settings' timeout was changed under it
C5_Witness ==
    \E r \in Reqs :
        /\ shape = "embedded"
        /\ req[r].kind = "chat"
        /\ AnsweredBeforeExit(req[r])
        /\ req[r].response.status = 504
        /\ settings.timeout # req[r].timeout

\* the CLI invocation of request q completed and gave a result text
Completed(q) ==
    /\ q.proc = "exited"
    /\ q.pc \in {"streaming", "responded"}
    /\ q.response.kind \in {"completion", "stream", "test_success"}
    /\ \A k \in 1..Len(q.events) : q.events[k].type # "error"

(* C6: in both shapes the result text of a completed CLI invocation is the         *)
(* trimmed standard output if standard output is non-empty, else "Error: "         *)
(* followed by standard error if that is non-empty, else the literal               *)
(* "No response from Claude Code CLI.".                                            *)
C6_ResultPolicy ==
    \A r \in Reqs :
        LET q == req[r]
        IN  Completed(q) =>
                q.response_text =
                    (IF q.stdout # <<>> THEN strip(q.stdout)
                     ELSE IF q.stderr # <<>> THEN T_ErrorPrefix \o q.stderr
                     ELSE T_NoResponse)

\* the enabled flag and the credential of the running shape
FeatureEnabled == IF shape = "embedded" THEN settings.enabled ELSE config.enabled

CredentialPresent ==
    IF shape = "embedded" THEN Truthy(settings.oauth_token) ELSE Truthy(config.oauth_token)

(* C7: in both shapes a chat request spawns its CLI process only in a step that    *)
(* finds the feature enabled and a credential present, and a request received      *)
(* while the feature is disabled or the credential is missing is answered with an  *)
(* HTTP error and spawns no process.                                               *)
C7_Gate ==
    [][\A r \in Reqs :
        /\ (req[r].proc = "none" /\ req'[r].proc # "none" /\ req'[r].kind = "chat") =>
               (FeatureEnabled /\ CredentialPresent)
        /\ (req[r].pc = "idle" /\ req'[r].pc # "idle" /\ req'[r].kind = "chat"
                /\ ~(FeatureEnabled /\ CredentialPresent)) =>
               /\ req'[r].pc = "responded"
               /\ req'[r].response.kind = "http_error"
               /\ req'[r].proc = "none"]_vars


(* C8 as stated: the settings get operation never returns the stored credential   *)
(* verbatim; one longer than 20 characters is returned as its first 15 characters  *)
(* + "..." + its last 4 characters, any other as exactly "***".                    *)
C8_Original ==
    (admin.op = "get" /\ Truthy(settings.oauth_token)) =>
        LET t == settings.oauth_token
            n == Len(t)
        IN  /\ admin.body.oauth_token # t
            /\ admin.body.oauth_token =
                   (IF n > 20 THEN SubSeq(t, 1, 15) \o T_Dots \o SubSeq(t, n - 3, n)
                    ELSE T_Stars)

(* C8: the settings get operation returns the settings with a non-empty stored    *)
(* credential replaced by its first 15 characters + "..." + its last 4 characters  *)
(* when it is longer than 20 characters and by exactly "***" otherwise, an unset   *)
(* or empty credential as it is; the value returned differs from a non-empty       *)
(* stored credential unless that credential already has the form of its own mask   *)
(* ("***", or 22 characters with "..." as the 16th to 18th).                       *)
C8_Masked ==
    admin.op = "get" =>
        LET t == settings.oauth_token
            m == admin.body.oauth_token
            n == Len(t)
        IN  /\ [admin.body EXCEPT !.oauth_token = t] = settings
            /\ IF t = None \/ t = <<>>
               THEN m = t
               ELSE /\ m = (IF n > 20 THEN SubSeq(t, 1, 15) \o T_Dots \o SubSeq(t, n - 3, n)
                            ELSE T_Stars)
                    /\ m = t => (t = T_Stars \/ (n = 22 /\ SubSeq(t, 16, 18) = T_Dots))

\* a stored credential of 21 characters was asked for and came back masked
C8_Witness ==
    /\ admin.op = "get"
    /\ settings.oauth_token # None
    /\ Len(settings.oauth_token) = 21
    /\ admin.body.oauth_token # settings.oauth_token
    /\ Len(admin.body.oauth_token) = 22

\* a credential that is given and does not start with the required prefix
InvalidCredential(t) ==
    /\ t # None
    /\ t # <<>>
    /\ (Len(t) < Len(T_TokenPrefix) \/ SubSeq(t, 1, Len(T_TokenPrefix)) # T_TokenPrefix)

(* C9: a settings update whose credential is non-empty and does not start with    *)
(* "sk-ant-oat01-" is rejected with a 400, and the in-memory settings, the         *)
(* persisted record and the ambient environment credential are what they were      *)
(* before the call.                                                                *)
C9_Rejected ==
    [][(admin'.op = "update" /\ InvalidCredential(admin'.input.oauth_token)) =>
           /\ admin'.status = 400
           /\ admin'.write = "none"
           /\ settings' = settings
           /\ file' = file
           /\ environ' = environ]_vars

\* an update with a bad credential was rejected after a credential had been saved
C9_Witness ==
    /\ admin.op = "update"
    /\ InvalidCredential(admin.input.oauth_token)
    /\ admin.status = 400
    /\ Truthy(settings.oauth_token)
    /\ environ = settings.oauth_token
    /\ file = RecordFile(settings)

(* C10: when the write of the persisted record fails, the save reports failure    *)
(* (the update answers 500) and the in-memory settings and the ambient environment *)
(* credential keep their values; when the save succeeds (the update answers 200)   *)
(* the in-memory settings equal the record handed to it in every field; and the    *)
(* ambient environment credential changes only in a step that is a successful      *)
(* save, which sets it to the credential of the record saved.                      *)
C10_Save ==
    [][/\ (admin'.op = "update" /\ admin'.write \in {"open_fails", "dump_fails"}) =>
              /\ admin'.status = 500
              /\ settings' = settings
              /\ environ' = environ
       /\ (admin'.op = "update" /\ admin'.status = 200) =>
              /\ settings' = admin'.saved
              /\ file' = RecordFile(admin'.saved)
       /\ environ' # environ =>
              /\ admin'.op = "update"
              /\ admin'.status = 200
              /\ admin'.write = "written"
              /\ environ' = admin'.saved.oauth_token]_vars

\* a save that failed in the write left the settings and the credential saved before
C10_Witness ==
    /\ admin.op = "update"
    /\ admin.write = "dump_fails"
    /\ admin.status = 500
    /\ admin.saved # settings
    /\ Truthy(settings.oauth_token)
    /\ environ = settings.oauth_token
    /\ file = CorruptFile

\* a save that wrote the record and then failed on the environment
C10_WitnessRefused ==
    /\ admin.op = "update"
    /\ admin.write = "written"
    /\ admin.status = 500
    /\ settings = admin.saved
    /\ environ # settings.oauth_token

\* the moves of a request between the positions of its handler: received ("idle"),
\* gated and extracted (inside the first step, or "started" for a standalone stream),
\* "executing", encoding ("streaming", or inside the step that answers), "responded"
PhaseMoves ==
    {<<"idle", "responded">>, <<"idle", "started">>, <<"idle", "executing">>,
     <<"started", "executing">>, <<"started", "responded">>,
     <<"executing", "streaming">>, <<"executing", "responded">>,
     <<"streaming", "responded">>}

\* the error responses request q has got: an error answer, error events in its stream
ErrorCount(q) ==
    (IF q.response.kind \in {"http_error", "error_payload", "test_failure"} THEN 1 ELSE 0)
        + Cardinality({k \in 1..Len(q.events) : q.events[k].type = "error"})

\* request q got its complete answer
Succeeded(q) ==
    \/ q.response.kind \in {"completion", "test_success"}
    \/ /\ q.response.kind = "stream"
       /\ q.events # <<>>
       /\ q.events[Len(q.events)].type = "done"

(* C11: every request moves received, gated, extracted, executing, encoding,      *)
(* responded in that order; an error response is given only from the gate, the     *)
(* extraction or the execution and ends the request; a request spawns at most one  *)
(* CLI process and nothing is done again after the answer (no retry); a request    *)
(* that has ended either succeeded with no error response or failed with exactly   *)
(* one.                                                                            *)
C11_Lifecycle ==
    /\ [](\A r \in Reqs :
            req[r].pc = "responded" =>
                IF Succeeded(req[r]) THEN ErrorCount(req[r]) = 0
                ELSE ErrorCount(req[r]) = 1)
    /\ [][\A r \in Reqs :
            /\ req'[r].pc # req[r].pc => <<req[r].pc, req'[r].pc>> \in PhaseMoves
            /\ ErrorCount(req'[r]) # ErrorCount(req[r]) =>
                   /\ req[r].pc \in {"idle", "started", "executing"}
                   /\ req'[r].pc = "responded"
                   /\ ErrorCount(req[r]) = 0
                   /\ ErrorCount(req'[r]) = 1
            /\ req[r].proc # "none" =>
                   /\ req'[r].proc # "none"
                   /\ req'[r].cmd = req[r].cmd
                   /\ req[r].proc = "exited" => req'[r].proc = "exited"
            /\ req[r].pc = "responded" =>
                   /\ req'[r].pc = "responded"
                   /\ req'[r].response = req[r].response
                   /\ req'[r].events = req[r].events
                   /\ req'[r].cmd = req[r].cmd]_vars

\* a streamed standalone request that timed out: one error event, one process, the end
C11_Witness ==
    \E r \in Reqs :
        /\ shape = "standalone"
        /\ req[r].pc = "responded"
        /\ req[r].stream
        /\ req[r].proc = "exited"
        /\ Len(req[r].events) = 1
        /\ req[r].events[1].type = "error"
        /\ ErrorCount(req[r]) = 1

(* C12: in the embedded shape, with chat requests and settings updates taking     *)
(* turns, a CLI process is spawned only in a step that finds the settings enabled  *)
(* with a credential, and it gets exactly the credential the in-memory settings    *)
(* hold in that step (the gate and the spawn read one snapshot); from then on the  *)
(* credential of that process never changes, whatever updates follow, while a      *)
(* process spawned after an update gets the updated credential.                    *)
C12_Credential ==
    [][\A r \in DOMAIN req :
        /\ (req[r].proc = "none" /\ req'[r].proc # "none") =>
               /\ settings' = settings
               /\ settings.enabled
               /\ Truthy(settings.oauth_token)
               /\ req'[r].proc_cred = settings.oauth_token
        /\ req[r].proc # "none" => req'[r].proc_cred = req[r].proc_cred]_vars

\* two processes running at once, the older with the credential of before the update
C12_Witness ==
    \E r1, r2 \in DOMAIN req :
        /\ shape = "embedded"
        /\ req[r1].proc = "running"
        /\ req[r2].proc = "running"
        /\ req[r1].proc_cred # req[r2].proc_cred
        /\ req[r2].proc_cred = settings.oauth_token
        /\ admin.op = "update"
        /\ admin.status = 200

\* the embedded handler took the prompt of request q from its messages
EmbeddedExtracted(q) ==
    /\ shape = "embedded"
    /\ q.kind = "chat"
    /\ q.pc # "idle"
    /\ ~(q.response.kind = "http_error" /\ q.response.status = 503)

\* text t without the marker "user: " at its start, if it starts with it
WithoutLeadingMarker(t) ==
    IF Len(t) >= 6 /\ SubSeq(t, 1, 6) = T_user_marker THEN SubSeq(t, 7, Len(t)) ELSE t

(* C13: in the embedded shape the prompt passed to the CLI is the final line      *)
(* "{role}: {content}" of the flattened conversation with only a leading "user: "  *)
(* marker removed, the text after the marker unchanged; with no messages the       *)
(* prompt is "Hello".                                                              *)
C13_LeadingMarker ==
    \A r \in Reqs :
        LET q == req[r]
            conv == conversation(context_messages(q.body.messages,
                                                  settings.max_context_messages))
        IN  EmbeddedExtracted(q) =>
                /\ q.body.messages = <<>> => q.user_message = T_Hello
                /\ conv # <<>> => q.user_message = WithoutLeadingMarker(conv[Len(conv)])

\* the texts of the text parts of a content list joined by single spaces, in order
RECURSIVE SpacedTexts(_)
SpacedTexts(parts) ==
    LET texts == SelectSeq(parts, LAMBDA p : p.type \in {"text", "str"})
        n == Len(texts)
    IN  IF n = 0 THEN <<>>
        ELSE IF n = 1 THEN texts[1].text
        ELSE SpacedTexts(SubSeq(texts, 1, n - 1)) \o <<" ">> \o texts[n].text

\* the content of a message flattened as the specification describes it
Flat(m) == IF m.content.kind = "list" THEN SpacedTexts(m.content.parts) ELSE m.content.text

(* C14: in the embedded shape a request with at least one message, in which every *)
(* message's flattened content is empty, has the empty string as its prompt, and   *)
(* the empty prompt is passed to the CLI as it is.                                 *)
C14_EmptyPrompt ==
    \A r \in Reqs :
        LET q == req[r]
            msgs == q.body.messages
        IN  (EmbeddedExtracted(q) /\ msgs # <<>>
                /\ \A k \in 1..Len(msgs) : Flat(msgs[k]) = <<>>) =>
                /\ q.user_message = <<>>
                /\ q.proc # "none" => q.cmd[3] = <<>>

\* the last k messages of a list, in order
LastMessages(msgs, k) == SubSeq(msgs, Len(msgs) - k + 1, Len(msgs))

(* C15: in the embedded shape, for every message list and every value N of        *)
(* max_context_messages, N = 0 and N beyond the length of the list included, the   *)
(* prompt is made from exactly the last min(N, length) messages in their order.    *)
C15_LastN ==
    \A r \in Reqs :
        LET q == req[r]
            msgs == q.body.messages
            N == settings.max_context_messages
            considered == LastMessages(msgs, IF N < Len(msgs) THEN N ELSE Len(msgs))
        IN  EmbeddedExtracted(q) =>
                q.user_message = embedded_user_message(considered, Len(considered))

\* the standalone handler got as far as the scan for the user message
StandaloneExtracted(q) ==
    /\ shape = "standalone"
    /\ q.pc # "idle"
    /\ ~(q.response.kind = "http_error" /\ q.response.status \in {401, 503})

\* the positions of the user messages of a list
UserPositions(msgs) == {k \in 1..Len(msgs) : msgs[k].role = T_user}

(* C16: in the standalone shape a request that reaches the extraction has as its  *)
(* prompt the flattened content of its most recent role="user" message and of that *)
(* message only - its text parts joined by single spaces in order, the others      *)
(* dropped; when that message flattens to empty (or there is none) the request is  *)
(* rejected with 400 and no process, whatever an earlier user message says.        *)
C16_LastUserMessage ==
    \A r \in Reqs :
        LET q == req[r]
            msgs == q.body.messages
            last == CHOOSE k \in UserPositions(msgs) : \A j \in UserPositions(msgs) : j <= k
        IN  StandaloneExtracted(q) =>
                IF UserPositions(msgs) = {} \/ Flat(msgs[last]) = <<>>
                THEN /\ q.pc = "responded"
                     /\ q.response.kind = "http_error"
                     /\ q.response.status = 400
                     /\ q.proc = "none"
                     /\ q.cmd = <<>>
                ELSE /\ q.user_message = Flat(msgs[last])
                     /\ q.cmd = <<config.command_path, T_print, Flat(msgs[last])>>

\* rejected although an earlier user message had a text
C16_Witness ==
    \E r \in Reqs :
        LET msgs == req[r].body.messages
        IN  /\ StandaloneExtracted(req[r])
            /\ Len(msgs) = 2
            /\ msgs[1].role = T_user /\ Flat(msgs[1]) # <<>>
            /\ msgs[2].role = T_user /\ Flat(msgs[2]) = <<>>
            /\ req[r].response.status = 400

\* a prompt made of the text parts of a list, around a part that is no text
C16_WitnessParts ==
    \E r \in Reqs :
        LET msgs == req[r].body.messages
        IN  /\ StandaloneExtracted(req[r])
            /\ req[r].proc = "exited"
            /\ Len(msgs) = 2
            /\ msgs[2].role = T_assistant
            /\ msgs[1].content.kind = "list"
            /\ req[r].cmd[3] = T_a \o T_space \o T_b

\* request q was answered with a timeout error
TimeoutAnswered(q) ==
    /\ q.pc = "responded"
    /\ \/ q.response.kind = "http_error" /\ q.response.status = 504
       \/ q.response.kind = "error_payload" /\ q.response.detail = "timeout_error"
       \/ q.response.kind = "test_failure" /\ q.response.seconds >= 0
       \/ \E k \in 1..Len(q.events) :
              q.events[k].type = "error" /\ q.events[k].detail = "timeout_error"

(* C17: on timeout the child process is terminated before the timeout error is    *)
(* signalled: no request has been answered with a timeout error while the CLI      *)
(* process it spawned is still running.                                            *)
C17_Terminated ==
    \A r \in Reqs : TimeoutAnswered(req[r]) => req[r].proc # "running"

(* C18: the administrative test call never answers with an HTTP error and reports  *)
(* every execution failure - a CLI run that wrote only to standard error among     *)
(* them - as a structured {success: false, error} result, whereas a chat           *)
(* completion for such a run succeeds with "Error: " + stderr as its answer.       *)
C18_TestCall ==
    \A r \in Reqs :
        LET q == req[r]
            stderr_only == q.proc = "exited" /\ q.stdout = <<>> /\ q.stderr # <<>>
        IN  /\ (q.kind = "test" /\ q.pc = "responded") =>
                   /\ q.response.kind \in {"test_success", "test_failure"}
                   /\ q.response.status = 200
                   /\ (q.proc # "exited" \/ stderr_only) => q.response.kind = "test_failure"
            /\ (shape = "embedded" /\ q.kind = "chat" /\ stderr_only
                    /\ q.pc \in {"streaming", "responded"}) =>
                   /\ q.response.kind \in {"completion", "stream"}
                   /\ q.response_text = T_ErrorPrefix \o q.stderr

(* C20: in the embedded shape a chat response is streamed only when the request's  *)
(* stream flag and the settings' stream_responses flag (as the request found it)   *)
(* are both true, and nothing is emitted before the CLI invocation has completed   *)
(* with a result; a stream-requested request that fails (disabled, no credential,  *)
(* timeout, process failure) ends with an HTTP error status and no event at all,   *)
(* never an error inside a stream.                                                 *)
C20_StreamAfterSuccess ==
    /\ [](\A r \in Reqs :
            LET q == req[r]
            IN  (shape = "embedded" /\ q.kind = "chat") =>
                    /\ (q.response.kind = "stream" \/ q.events # <<>>) =>
                           /\ q.body.stream
                           /\ q.stream
                           /\ q.response.kind = "stream"
                           /\ q.proc = "exited"
                           /\ q.response_text = result_text(q.stdout, q.stderr)
                           /\ \A k \in 1..Len(q.events) : q.events[k].type # "error"
                    /\ (q.pc = "responded" /\ ~Succeeded(q)) =>
                           /\ q.response.kind = "http_error"
                           /\ q.response.status \in {401, 500, 503, 504}
                           /\ q.events = <<>>)
    /\ [][\A r \in Reqs :
            (shape = "embedded" /\ req[r].pc = "idle" /\ req'[r].pc # "idle"
                /\ req'[r].kind = "chat" /\ req'[r].stream) =>
                (req'[r].body.stream /\ settings.stream_responses)]_vars

\* a request that asked for a stream, was going to get one, and timed out
C20_Witness ==
    \E r \in Reqs :
        /\ shape = "embedded"
        /\ req[r].kind = "chat"
        /\ req[r].body.stream
        /\ req[r].stream
        /\ req[r].pc = "responded"
        /\ req[r].response.status = 504
        /\ req[r].events = <<>>

\* the credential as the settings get operation shows the stored credential c
Shown(c) ==
    IF c = None \/ c = <<>> THEN c
    ELSE IF Len(c) > 20 THEN SubSeq(c, 1, 15) \o T_Dots \o SubSeq(c, Len(c) - 3, Len(c))
    ELSE T_Stars

\* a credential given in full: with the required prefix and not the mask of something
FullCredential(c) ==
    /\ Len(c) >= Len(T_TokenPrefix)
    /\ SubSeq(c, 1, Len(T_TokenPrefix)) = T_TokenPrefix
    /\ \A k \in 1..(Len(c) - 2) : SubSeq(c, k, k + 2) # T_Dots

(* C19 as stated: after any sequence of get and update calls the stored           *)
(* credential is either unset or a value that an update supplied in full with the  *)
(* prefix "sk-ant-oat01-", never a mask.                                           *)
C19_Original ==
    admin.op # "none" =>
        \/ settings.oauth_token = None
        \/ settings.oauth_token = <<>>
        \/ FullCredential(settings.oauth_token)

(* C19: an update that carries the credential exactly as the settings get         *)
(* operation shows it never changes the stored credential, whatever is stored;     *)
(* and the stored credential changes only in an update, to the credential that     *)
(* update carried, which is unset, empty, or given in full with the prefix         *)
(* "sk-ant-oat01-" and no "..." in it - so the stored credential is always the one *)
(* loaded at startup or one an update gave in full, and no update stores a mask.   *)
C19_MaskRoundTrip ==
    [][/\ (admin'.op = "update" /\ admin'.input.oauth_token = Shown(settings.oauth_token)) =>
              settings'.oauth_token = settings.oauth_token
       /\ settings'.oauth_token # settings.oauth_token =>
              /\ admin'.op = "update"
              /\ admin'.write = "written"
              /\ settings'.oauth_token = admin'.input.oauth_token
              /\ \/ settings'.oauth_token = None
                 \/ settings'.oauth_token = <<>>
                 \/ FullCredential(settings'.oauth_token)]_vars

\* an update that carried the mask of a long credential went through and the
\* credential is still stored in full
C19_Witness ==
    /\ admin.op = "update"
    /\ admin.status = 200
    /\ settings.oauth_token # None
    /\ Len(settings.oauth_token) > 20
    /\ FullCredential(settings.oauth_token)
    /\ admin.input.oauth_token = Shown(settings.oauth_token)
    /\ admin.input.oauth_token # settings.oauth_token

=============================================================================
